---- MODULE Spec2Model ----
(***************************************************************************)
(* HookExecutionEngine (extensions/vscode/src/kiro/services/               *)
(* HookExecutionEngine.ts): hook registry, file watchers, the execution    *)
(* queue with its single consumer loop, action dispatch and hook status.   *)
(*                                                                         *)
(* The engine runs on one JavaScript thread.  A step of the model is one   *)
(* run-to-completion piece of engine code: a public method or a watcher    *)
(* callback from its entry to its return, or the consumer loop from one    *)
(* await to the next.                                                      *)
(***************************************************************************)
EXTENDS Integers, Sequences, FiniteSets, Bags, TLC

\* Bounds of the model.
MaxEnq == 3          \* executions appended to the queue over a whole run
MaxWatchers == 4     \* file watchers alive at the same time
MaxTerminals == 2    \* terminals created over a whole run, where they are followed
MaxRuns == 2         \* executeHook calls of the hooks panel waiting at the same time

None == "none"

(***************************************************************************)
(* Strings.  A string is a sequence of tokens: a token is a character run  *)
(* that the code never splits (an action prefix, a file extension, a       *)
(* name) or a separator ("/", ".").                                        *)
(***************************************************************************)
StartsWith(s, tok) == Len(s) > 0 /\ s[1] = tok

\* String.prototype.includes
Includes(s, sub) ==
    \E i \in 1..(Len(s) + 1) :
        /\ i + Len(sub) - 1 <= Len(s)
        /\ SubSeq(s, i, i + Len(sub) - 1) = sub

\* String.prototype.replace(tok, ""): the first occurrence of tok is removed.
ReplaceFirst(s, tok) ==
    IF \E i \in 1..Len(s) : s[i] = tok
    THEN LET k == CHOOSE i \in 1..Len(s) :
                      s[i] = tok /\ \A j \in 1..(i - 1) : s[j] # tok
         IN  SubSeq(s, 1, k - 1) \o SubSeq(s, k + 1, Len(s))
    ELSE s

\* String.prototype.trim: the white space at both ends is removed.
RECURSIVE Trim(_)
Trim(s) ==
    IF s = <<>> THEN s
    ELSE IF Head(s) = " " THEN Trim(Tail(s))
    ELSE IF s[Len(s)] = " " THEN Trim(SubSeq(s, 1, Len(s) - 1))
    ELSE s

\* path.basename
Basename(p) ==
    IF \E i \in 1..Len(p) : p[i] = "/"
    THEN LET k == CHOOSE i \in 1..Len(p) :
                      p[i] = "/" /\ \A j \in (i + 1)..Len(p) : p[j] # "/"
         IN  SubSeq(p, k + 1, Len(p))
    ELSE p

\* this.workspaceRoot
WorkspaceRoot == <<"/", "w">>

\* uri.fsPath of a file given by its path relative to the workspace root
FsPath(rel) == WorkspaceRoot \o <<"/">> \o rel

\* Files of the workspace that change, relative to the workspace root.
PathSrc == <<"src", "/", "a", ".", "ts">>
PathDoc == <<"README", ".", "md">>
PathBak == <<"src", "/", "a", ".", "ts", ".", "bak">>
Paths == {PathSrc, PathDoc, PathBak}

\* The brace lists of the two post-save patterns.
SourceExts == {"ts", "tsx", "js", "jsx", "py", "rs", "go", "java", "cpp", "c",
               "cs", "php", "rb", "swift", "kt"}
DocExts == {"md", "txt", "json", "yaml", "yml", "xml", "html", "css", "scss"}

ExtsOf(list) == IF list = "source" THEN SourceExts ELSE DocExts

\* A glob pattern: "**/*.{<list>}" (kind "ext", list "source" or "doc") or
\* "**/<fragment>" (kind "frag").
ExtPattern(list) == [kind |-> "ext", list |-> list, frag |-> <<>>]
FragPattern(frag) == [kind |-> "frag", list |-> None, frag |-> frag]

\* A watcher reporting every changed file, whatever its pattern
GlobMatchesAny(pat, rel) == TRUE

\* vscode.RelativePattern(workspaceRoot, pattern) against a relative path.
GlobMatches(pat, rel) ==
    LET n == Len(rel)
        m == Len(pat.frag)
    IN  IF pat.kind = "ext"
        THEN n >= 2 /\ rel[n - 1] = "." /\ rel[n] \in ExtsOf(pat.list)
        ELSE /\ m >= 1
             /\ m <= n
             /\ SubSeq(rel, n - m + 1, n) = pat.frag
             /\ (n = m \/ rel[n - m] = "/")

(***************************************************************************)
(* Hook records (interface Hook).  The caller hands hook objects to the    *)
(* engine; the engine keeps references to them.  HookObjs are the objects, *)
(* HookOf gives the fields the engine only reads.                          *)
(***************************************************************************)
HookIds == {"h1", "h2", "h3"}
Triggers == {"pre-commit", "post-save", "pre-push", "on-start", "custom"}
Statuses == {"active", "disabled", "error", "pending"}

HookObjs == {"oStart", "oSave", "oCustom", "oOff", "oGit", "oEmpty"}

HookOf(o) ==
    CASE o = "oStart"  -> [id |-> "h1", trigger |-> "on-start", enabled |-> TRUE,
                           actions |-> << <<"sendChat:", "hello">> >>,
                           status |-> "active"]
      [] o = "oSave"   -> [id |-> "h2", trigger |-> "post-save", enabled |-> TRUE,
                           actions |-> << <<"runCommand:", "echo hi">> >>,
                           status |-> "active"]
      [] o = "oCustom" -> [id |-> "h2", trigger |-> "custom", enabled |-> TRUE,
                           actions |-> << <<"src", "/", "a", ".", "ts">>,
                                          <<"a", ".", "ts">> >>,
                           status |-> "active"]
      [] o = "oOff"    -> [id |-> "h3", trigger |-> "post-save", enabled |-> FALSE,
                           actions |-> << <<"askAgent:", "review">> >>,
                           status |-> "disabled"]
      [] o = "oGit"    -> [id |-> "h3", trigger |-> "pre-commit", enabled |-> TRUE,
                           actions |-> << <<"askAgent:", "review">>,
                                          <<"runCommand:", "echo hi">> >>,
                           status |-> "active"]
      [] OTHER         -> [id |-> "h1", trigger |-> "custom", enabled |-> TRUE,
                           actions |-> << >>,
                           status |-> "disabled"]

(***************************************************************************)
(* Engine state.                                                           *)
(***************************************************************************)
VARIABLES
    hooks,           \* the hook objects the host holds and passes to the engine
    activeHooks,     \* Map<string, Hook>: id -> hook object, or None
    fileWatchers,    \* Map<string, FileSystemWatcher>: id -> index into watchers, 0 = no entry
    watchers,        \* the watchers created and not disposed, in creation order
    executionQueue,  \* Array<{hook, trigger, data}>; seq numbers the enqueues
    isExecuting,     \* the consumer flag
    loops,           \* the suspended processExecutionQueue calls
    status,          \* hook.status of each hook object
    lastExecuted,    \* hook.lastExecuted: the seq of the execution that set it, 0 = absent
    notifications,   \* bag of the failure notifications shown, "Retry" still open
    enqueued,        \* how many executions queueHookExecution has appended so far
    dropped,         \* the seqs of the entries dispose() discarded
    terminals,       \* the terminals created for runCommand actions, where they are followed
    taskManager,     \* TaskManager: currentTask and queue
    hooksStatus,     \* HooksStatusProvider: hooks, and its executeHook calls in their await
    hookBuilder,     \* HookBuilderService: the hook given to validateHook and what it returned
    lastCall         \* the last step taken and how it ended, where it is observed

vars == <<hooks, activeHooks, fileWatchers, watchers, executionQueue, isExecuting,
          loops, status, lastExecuted, notifications, enqueued, dropped,
          terminals, taskManager, hooksStatus, hookBuilder, lastCall>>

\* The engine as one value, for the methods below to take and return.
Engine ==
    [activeHooks |-> activeHooks, fileWatchers |-> fileWatchers,
     watchers |-> watchers, executionQueue |-> executionQueue,
     isExecuting |-> isExecuting, loops |-> loops, status |-> status,
     lastExecuted |-> lastExecuted, notifications |-> notifications,
     enqueued |-> enqueued, dropped |-> dropped, terminals |-> terminals]

Commit(r) ==
    /\ activeHooks' = r.activeHooks
    /\ fileWatchers' = r.fileWatchers
    /\ watchers' = r.watchers
    /\ executionQueue' = r.executionQueue
    /\ isExecuting' = r.isExecuting
    /\ loops' = r.loops
    /\ status' = r.status
    /\ lastExecuted' = r.lastExecuted
    /\ notifications' = r.notifications
    /\ enqueued' = r.enqueued
    /\ dropped' = r.dropped
    /\ terminals' = r.terminals

\* The model's bounds, on the state a step leads to.
WithinBounds(r) ==
    /\ r.enqueued <= MaxEnq
    /\ Len(r.watchers) <= MaxWatchers
    /\ Len(r.terminals.list) <= MaxTerminals

\* The event payloads (the data argument): an object, given by its fields.
NoData == [file |-> <<>>, extra |-> None]
FileData(rel) == [file |-> FsPath(rel), extra |-> None]
CustomData(rel) == [file |-> FsPath(rel), extra |-> "action"]
StartData == [file |-> <<>>, extra |-> "timestamp"]
\* triggerHook's "data || {}"
ManualData(d) == [file |-> <<>>, extra |-> IF d = "undefined" THEN "{}" ELSE d]
ManualInputs == {"undefined"}

NoExec == [hook |-> None, trigger |-> None, data |-> NoData, seq |-> 0]

\* A processExecutionQueue call suspended in an action's await ...
AwaitingAction(e, i) == [pc |-> "action", exec |-> e, idx |-> i]
\* ... and one suspended in "await this.executeHook(...)", executeHook having returned.
AwaitingExecuteHook == [pc |-> "resume", exec |-> NoExec, idx |-> 0]

(***************************************************************************)
(* Action dispatch.                                                        *)
(***************************************************************************)
ExecuteAskAgentAction(o, action, data) ==
    [sink |-> "chat", hook |-> o, text |-> Trim(ReplaceFirst(action, "askAgent:")),
     context |-> data]

ExecuteRunCommandAction(o, action, data) ==
    [sink |-> "terminal", hook |-> o, text |-> Trim(ReplaceFirst(action, "runCommand:")),
     context |-> NoData]

ExecuteSendChatAction(o, action, data) ==
    [sink |-> "chat", hook |-> o, text |-> Trim(ReplaceFirst(action, "sendChat:")),
     context |-> NoData]

\* executeAction sending an action without a known prefix to the chat
ExecuteActionUnknownToChat(o, action, data) ==
    IF StartsWith(action, "askAgent:") THEN ExecuteAskAgentAction(o, action, data)
    ELSE IF StartsWith(action, "runCommand:") THEN ExecuteRunCommandAction(o, action, data)
    ELSE ExecuteSendChatAction(o, action, data)

\* The collaborator call an action makes.
ExecuteAction(o, action, data) ==
    IF StartsWith(action, "askAgent:") THEN ExecuteAskAgentAction(o, action, data)
    ELSE IF StartsWith(action, "runCommand:") THEN ExecuteRunCommandAction(o, action, data)
    ELSE IF StartsWith(action, "sendChat:") THEN ExecuteSendChatAction(o, action, data)
    ELSE ExecuteRunCommandAction(o, <<"runCommand:">> \o action, data)

\* The terminals of the host: each runs the command sent to it, which is still
\* running or has ended with an exit code. They are followed in the
\* specifications that say so.
TerminalsUntracked == [tracked |-> FALSE, list |-> <<>>]
TerminalsTracked == [tracked |-> TRUE, list |-> <<>>]
ExitCodes == {"0", "1"}

\* createTerminal, show and sendText have returned for the call c.
CommandSent(s, c) ==
    IF s.terminals.tracked /\ c.sink = "terminal"
    THEN [s EXCEPT !.terminals.list =
                        Append(@, [hook |-> c.hook, text |-> c.text, exit |-> "running"])]
    ELSE s

\* An engine that listens for the end of its commands and marks the hook failed
CommandEndsObserved(s, i, code) ==
    [s EXCEPT !.terminals.list[i].exit = code,
              !.status[s.terminals.list[i].hook] =
                    IF code = "0" THEN @ ELSE "error"]

\* The command of terminal i ends with an exit code: the engine kept no
\* reference to the terminal and subscribed to nothing of it.
CommandEnds(s, i, code) ==
    [s EXCEPT !.terminals.list[i].exit = code]

\* The call a suspended consumer is waiting for.
PendingCall(l) ==
    ExecuteAction(l.exec.hook, HookOf(l.exec.hook).actions[l.idx], l.exec.data)

(***************************************************************************)
(* executeHook, in the pieces between its awaits.                          *)
(***************************************************************************)
\* All actions done: status, success notification, return.
ExecuteHookSucceeds(s, e) ==
    [s EXCEPT !.status[e.hook] = "active",
              !.loops = @ \cup {AwaitingExecuteHook}]

\* What the "Retry" callback of a failed execution's notification holds.
RetryOffer(e) == [hook |-> e.hook, trigger |-> e.trigger, data |-> e.data]

\* executeHook's catch rethrows and processExecutionQueue does not catch: the
\* consumer ends with the error.
ExecuteHookCatchEscapes(s, e) ==
    [s EXCEPT !.status[e.hook] = "error",
              !.notifications = @ (+) SetToBag({RetryOffer(e)})]

\* The catch block appending the failed execution to the queue again
ExecuteHookCatchRequeues(s, e) ==
    [s EXCEPT !.status[e.hook] = "error",
              !.notifications = @ (+) SetToBag({RetryOffer(e)}),
              !.loops = @ \cup {AwaitingExecuteHook},
              !.executionQueue = Append(@, [e EXCEPT !.seq = s.enqueued + 1]),
              !.enqueued = @ + 1]

\* The catch block: status, failure notification with "Retry", return.
ExecuteHookCatch(s, e) ==
    [s EXCEPT !.status[e.hook] = "error",
              !.notifications = @ (+) SetToBag({RetryOffer(e)}),
              !.loops = @ \cup {AwaitingExecuteHook}]

\* executeHook without "hook.lastExecuted = new Date()"
ExecuteHookNoStamp(s, e) ==
    LET s1 == [s EXCEPT !.status[e.hook] = "pending"]
    IN  IF Len(HookOf(e.hook).actions) = 0
        THEN ExecuteHookSucceeds(s1, e)
        ELSE [s1 EXCEPT !.loops = @ \cup {AwaitingAction(e, 1)}]

\* executeHook starting all the actions without awaiting any (Promise.all)
ExecuteHookAllAtOnce(s, e) ==
    LET s1 == [s EXCEPT !.status[e.hook] = "pending",
                        !.lastExecuted[e.hook] = e.seq]
    IN  IF Len(HookOf(e.hook).actions) = 0
        THEN ExecuteHookSucceeds(s1, e)
        ELSE [s1 EXCEPT !.loops = @ \cup {AwaitingAction(e, i) :
                                            i \in 1..Len(HookOf(e.hook).actions)}]

\* From the entry to the first await.
ExecuteHook(s, e) ==
    LET s1 == [s EXCEPT !.status[e.hook] = "pending",
                        !.lastExecuted[e.hook] = e.seq]
    IN  IF Len(HookOf(e.hook).actions) = 0
        THEN ExecuteHookSucceeds(s1, e)
        ELSE [s1 EXCEPT !.loops = @ \cup {AwaitingAction(e, 1)}]

(***************************************************************************)
(* The queue and its consumer.                                             *)
(***************************************************************************)
\* Array.prototype.pop in the place of shift
ShiftFromTail(q) == [taken |-> q[Len(q)], rest |-> SubSeq(q, 1, Len(q) - 1)]

\* Array.prototype.shift: the entry taken and the entries left.
Shift(q) == [taken |-> Head(q), rest |-> Tail(q)]

\* The while loop without "this.isExecuting = false" after it
DrainQueueKeepsFlag(s) ==
    IF Len(s.executionQueue) > 0
    THEN LET sh == Shift(s.executionQueue)
         IN  ExecuteHook([s EXCEPT !.executionQueue = sh.rest], sh.taken)
    ELSE s

\* The while loop clearing the flag as it takes the last entry
DrainQueueClearsEarly(s) ==
    IF Len(s.executionQueue) > 0
    THEN LET sh == Shift(s.executionQueue)
         IN  ExecuteHook([s EXCEPT !.executionQueue = sh.rest,
                                   !.isExecuting = (sh.rest # <<>>)], sh.taken)
    ELSE [s EXCEPT !.isExecuting = FALSE]

\* The while loop of processExecutionQueue, from its test to the next await.
DrainQueue(s) ==
    IF Len(s.executionQueue) > 0
    THEN LET sh == Shift(s.executionQueue)
         IN  ExecuteHook([s EXCEPT !.executionQueue = sh.rest], sh.taken)
    ELSE [s EXCEPT !.isExecuting = FALSE]

\* processExecutionQueue without "this.isExecuting = true"
ProcessExecutionQueueNoFlag(s) ==
    IF s.isExecuting \/ Len(s.executionQueue) = 0
    THEN s
    ELSE DrainQueue(s)

ProcessExecutionQueue(s) ==
    IF s.isExecuting \/ Len(s.executionQueue) = 0
    THEN s
    ELSE DrainQueue([s EXCEPT !.isExecuting = TRUE])

\* queueHookExecution setting the hook's status to pending as it appends
QueueHookExecutionMarksPending(s, o, trigger, data) ==
    LET e == [hook |-> o, trigger |-> trigger, data |-> data,
              seq |-> s.enqueued + 1]
        s1 == [s EXCEPT !.executionQueue = Append(@, e),
                        !.enqueued = @ + 1,
                        !.status[o] = "pending"]
    IN  IF ~s1.isExecuting THEN ProcessExecutionQueue(s1) ELSE s1

\* queueHookExecution calling the consumer's loop whatever the flag says
QueueHookExecutionAlwaysDrains(s, o, trigger, data) ==
    LET e == [hook |-> o, trigger |-> trigger, data |-> data,
              seq |-> s.enqueued + 1]
        s1 == [s EXCEPT !.executionQueue = Append(@, e),
                        !.enqueued = @ + 1]
    IN  DrainQueue([s1 EXCEPT !.isExecuting = TRUE])

\* queueHookExecution dropping a request for a hook that has an entry waiting
QueueHookExecutionDedups(s, o, trigger, data) ==
    LET e == [hook |-> o, trigger |-> trigger, data |-> data,
              seq |-> s.enqueued + 1]
        s1 == [s EXCEPT !.executionQueue = Append(@, e),
                        !.enqueued = @ + 1]
    IN  IF \E i \in 1..Len(s.executionQueue) : s.executionQueue[i].hook = o
        THEN s
        ELSE IF ~s1.isExecuting THEN ProcessExecutionQueue(s1) ELSE s1

QueueHookExecution(s, o, trigger, data) ==
    LET e == [hook |-> o, trigger |-> trigger, data |-> data,
              seq |-> s.enqueued + 1]
        s1 == [s EXCEPT !.executionQueue = Append(@, e),
                        !.enqueued = @ + 1]
    IN  IF ~s1.isExecuting THEN ProcessExecutionQueue(s1) ELSE s1

(***************************************************************************)
(* Registration and watchers.                                              *)
(***************************************************************************)
\* getHookPatterns giving the git triggers a pattern to watch
GetHookPatternsGitWatched(o) ==
    LET h == HookOf(o)
    IN  CASE h.trigger = "post-save" -> <<ExtPattern("source"), ExtPattern("doc")>>
          [] h.trigger = "on-start"  -> <<>>
          [] h.trigger = "custom"    -> [i \in 1..Len(h.actions) |-> FragPattern(h.actions[i])]
          [] OTHER                   -> <<ExtPattern("source")>>

GetHookPatterns(o) ==
    LET h == HookOf(o)
    IN  CASE h.trigger = "post-save" -> <<ExtPattern("source"), ExtPattern("doc")>>
          [] h.trigger = "on-start"  -> <<>>
          [] h.trigger = "custom"    -> [i \in 1..Len(h.actions) |-> FragPattern(h.actions[i])]
          [] OTHER                   -> <<>>

\* The onDidChange handler a watcher of hook o gets.
HandlerOf(o) ==
    CASE HookOf(o).trigger = "post-save" -> "fileChanged"
      [] HookOf(o).trigger = "custom"    -> "customTrigger"
      [] OTHER                           -> None

\* The body of setupHookWatchers' loop for one pattern.
WatchPattern(s, o, pat) ==
    LET h == HookOf(o)
        w == [hook |-> o, pattern |-> pat, handler |-> HandlerOf(o)]
        s1 == [s EXCEPT !.watchers = Append(@, w)]
    IN  IF h.trigger = "pre-commit" \/ h.trigger = "pre-push"
        THEN s1
        ELSE LET s2 == IF h.trigger = "on-start"
                       THEN QueueHookExecution(s1, o, "onStart", StartData)
                       ELSE s1
             IN  [s2 EXCEPT !.fileWatchers[h.id] = Len(s2.watchers)]

\* setupHookWatchers from pattern k on; createFileSystemWatcher throws at
\* pattern failAt (0: never), which ends the loop.
RECURSIVE SetupHookWatchers(_, _, _, _)
SetupHookWatchers(s, o, k, failAt) ==
    LET pats == GetHookPatterns(o)
    IN  IF k > Len(pats) \/ k = failAt
        THEN s
        ELSE SetupHookWatchers(WatchPattern(s, o, pats[k]), o, k + 1, failAt)

\* registerHook taking the hook out of the registry when a watcher fails
RegisterHookRollsBack(s, o, failAt) ==
    IF ~HookOf(o).enabled
    THEN s
    ELSE LET r == SetupHookWatchers([s EXCEPT !.activeHooks[HookOf(o).id] = o],
                                    o, 1, failAt)
         IN  IF failAt # 0 THEN [r EXCEPT !.activeHooks[HookOf(o).id] = None] ELSE r

\* registerHook storing a disabled hook in the registry before it returns
RegisterHookRecordsDisabled(s, o, failAt) ==
    IF ~HookOf(o).enabled
    THEN [s EXCEPT !.activeHooks[HookOf(o).id] = o]
    ELSE SetupHookWatchers([s EXCEPT !.activeHooks[HookOf(o).id] = o], o, 1, failAt)

\* registerHook without its test of hook.enabled
RegisterHookAlways(s, o, failAt) ==
    SetupHookWatchers([s EXCEPT !.activeHooks[HookOf(o).id] = o], o, 1, failAt)

RegisterHook(s, o, failAt) ==
    IF ~HookOf(o).enabled
    THEN s
    ELSE SetupHookWatchers([s EXCEPT !.activeHooks[HookOf(o).id] = o], o, 1, failAt)

\* watcher.dispose() for the watchers at the indices in gone: they leave the
\* list, the table's indices follow the watchers they name.
DisposeWatchers(s, gone) ==
    LET keep == {i \in 1..Len(s.watchers) : i \notin gone}
        Rank(i) == Cardinality({j \in keep : j <= i})
        left == [n \in 1..Cardinality(keep) |->
                    s.watchers[CHOOSE i \in keep : Rank(i) = n]]
    IN  [s EXCEPT !.watchers = left,
                  !.fileWatchers = [id \in HookIds |->
                        IF s.fileWatchers[id] \in keep
                        THEN Rank(s.fileWatchers[id]) ELSE 0]]

\* unregisterHook that also removes the hook's waiting executions
UnregisterHookCancels(s, id) ==
    IF s.activeHooks[id] = None
    THEN s
    ELSE LET s1 == IF s.fileWatchers[id] # 0
                   THEN DisposeWatchers(s, {s.fileWatchers[id]})
                   ELSE s
         IN  [s1 EXCEPT !.activeHooks[id] = None,
                        !.executionQueue = SelectSeq(@, LAMBDA e : HookOf(e.hook).id # id)]

\* unregisterHook disposing every watcher created under the id, found or not
UnregisterHookSweeps(s, id) ==
    LET s1 == DisposeWatchers(s, {i \in 1..Len(s.watchers) :
                                      HookOf(s.watchers[i].hook).id = id})
    IN  IF s.activeHooks[id] = None
        THEN s1
        ELSE [s1 EXCEPT !.activeHooks[id] = None]

UnregisterHook(s, id) ==
    IF s.activeHooks[id] = None
    THEN s
    ELSE LET s1 == IF s.fileWatchers[id] # 0
                   THEN DisposeWatchers(s, {s.fileWatchers[id]})
                   ELSE s
         IN  [s1 EXCEPT !.activeHooks[id] = None]

Dispose(s) ==
    LET s1 == DisposeWatchers(s, {s.fileWatchers[id] : id \in HookIds} \ {0})
    IN  [s1 EXCEPT !.activeHooks = [id \in HookIds |-> None],
                   !.executionQueue = <<>>,
                   !.dropped = @ \cup {s.executionQueue[i].seq :
                                            i \in 1..Len(s.executionQueue)}]

(***************************************************************************)
(* Watcher callbacks.                                                      *)
(***************************************************************************)
\* setupCustomTriggers' callback
CustomTriggerHandler(s, o, rel) ==
    LET acts == HookOf(o).actions
        shouldTrigger == \E i \in 1..Len(acts) :
                            \/ Includes(Basename(FsPath(rel)), acts[i])
                            \/ Includes(FsPath(rel), acts[i])
    IN  IF shouldTrigger
        THEN QueueHookExecution(s, o, "customTrigger", CustomData(rel))
        ELSE s

\* A handler called for every changed file, whatever its watcher's pattern
OnDidChangeUnfiltered(s, w, rel) ==
    IF w.handler = "fileChanged"
    THEN QueueHookExecution(s, w.hook, "fileChanged", FileData(rel))
    ELSE IF w.handler = "customTrigger"
    THEN CustomTriggerHandler(s, w.hook, rel)
    ELSE s

\* One watcher's onDidChange for a change of file rel.
OnDidChange(s, w, rel) ==
    IF ~GlobMatches(w.pattern, rel) THEN s
    ELSE IF w.handler = "fileChanged"
    THEN QueueHookExecution(s, w.hook, "fileChanged", FileData(rel))
    ELSE IF w.handler = "customTrigger"
    THEN CustomTriggerHandler(s, w.hook, rel)
    ELSE s

\* One change event, delivered to the watchers ws in creation order.
RECURSIVE FireChange(_, _, _)
FireChange(s, ws, rel) ==
    IF ws = <<>> THEN s
    ELSE FireChange(OnDidChange(s, Head(ws), rel), Tail(ws), rel)

GetHook(s, id) == s.activeHooks[id]

TriggerHookFound(s, id) == s.activeHooks[id] # None

\* triggerHook refusing a hook whose status is error
TriggerHookSkipsFailed(s, id, d) ==
    IF ~TriggerHookFound(s, id) \/ s.status[s.activeHooks[id]] = "error"
    THEN s
    ELSE QueueHookExecution(s, s.activeHooks[id], "manual", ManualData(d))

\* triggerHook labelling the execution with the hook's configured trigger
TriggerHookOwnTrigger(s, id, d) ==
    IF ~TriggerHookFound(s, id)
    THEN s
    ELSE QueueHookExecution(s, s.activeHooks[id],
                            HookOf(s.activeHooks[id]).trigger, ManualData(d))

TriggerHook(s, id, d) ==
    IF ~TriggerHookFound(s, id)
    THEN s
    ELSE QueueHookExecution(s, s.activeHooks[id], "manual", ManualData(d))

(***************************************************************************)
(* The consumer's continuations.                                           *)
(***************************************************************************)
\* A raising action skipped: the for loop goes on with the next action
ActionSettlesSkipsFailed(s, l, raised) ==
    LET s0 == IF raised
              THEN [s EXCEPT !.loops = @ \ {l}]
              ELSE CommandSent([s EXCEPT !.loops = @ \ {l}], PendingCall(l))
    IN  IF l.idx < Len(HookOf(l.exec.hook).actions)
        THEN [s0 EXCEPT !.loops = @ \cup {AwaitingAction(l.exec, l.idx + 1)}]
        ELSE IF raised
        THEN ExecuteHookCatch(s0, l.exec)
        ELSE ExecuteHookSucceeds(s0, l.exec)

\* The await of consumer l's action ends: the call returned or it raised.
ActionSettles(s, l, raised) ==
    LET s0 == IF raised
              THEN [s EXCEPT !.loops = @ \ {l}]
              ELSE CommandSent([s EXCEPT !.loops = @ \ {l}], PendingCall(l))
    IN  IF raised
        THEN ExecuteHookCatch(s0, l.exec)
        ELSE IF l.idx < Len(HookOf(l.exec.hook).actions)
        THEN [s0 EXCEPT !.loops = @ \cup {AwaitingAction(l.exec, l.idx + 1)}]
        ELSE ExecuteHookSucceeds(s0, l.exec)

\* "await this.executeHook(...)" of consumer l ends: the try block is left and
\* the loop tests the queue again.
ResumeLoop(s, l) == DrainQueue([s EXCEPT !.loops = @ \ {l}])

\* "Retry" going through triggerHook's enqueue: label manual, empty payload
NotificationAnsweredAsManual(s, n, choice) ==
    LET s0 == [s EXCEPT !.notifications = @ (-) SetToBag({n})]
    IN  IF choice = "Retry"
        THEN QueueHookExecution(s0, n.hook, "manual", ManualData("undefined"))
        ELSE s0

\* The failure notification n is answered.
NotificationAnswered(s, n, choice) ==
    LET s0 == [s EXCEPT !.notifications = @ (-) SetToBag({n})]
    IN  IF choice = "Retry"
        THEN QueueHookExecution(s0, n.hook, n.trigger, n.data)
        ELSE s0

(***************************************************************************)
(* TaskManager (services/TaskManager.ts).                                  *)
(***************************************************************************)
\* A task as its caller gives it: file, line and title, strings as their
\* characters. The two titles have the same hash.
TaskTexts ==
    {[file |-> <<"a">>, line |-> 1, title |-> <<"A", "a">>],
     [file |-> <<"a">>, line |-> 1, title |-> <<"B", "B">>]}

\* String.prototype.charCodeAt for the characters of the texts.
CharCode(c) ==
    CASE c = ":" -> 58
      [] c = "1" -> 49
      [] c = "A" -> 65
      [] c = "B" -> 66
      [] c = "a" -> 97

\* createId's hash is a 32-bit signed integer ("hash |= 0"), held here as its
\* two 16-bit halves. One round of the loop: hash = (hash << 5) - hash + c,
\* which is 31 * hash + c in 32 bits.
HashRound(hash, c) ==
    LET lo == hash.lo * 31 + c
    IN  [lo |-> lo % 65536, hi |-> (hash.hi * 31 + lo \div 65536) % 65536]

RECURSIVE HashFrom(_, _)
HashFrom(hash, base) ==
    IF base = <<>> THEN hash
    ELSE HashFrom(HashRound(hash, CharCode(Head(base))), Tail(base))

\* Math.abs of the signed value of the two halves.
HashAbs(hash) ==
    IF hash.hi >= 32768
    THEN (65535 - hash.hi) * 65536 + (65536 - hash.lo)
    ELSE hash.hi * 65536 + hash.lo

CreateId(task) ==
    LET base == task.file \o <<":">> \o <<ToString(task.line)>> \o <<":">> \o task.title
    IN  "task-" \o ToString(HashAbs(HashFrom([lo |-> 0, hi |-> 0], base)))

\* An id argument left out.
NoId == "undefined"
\* The ids a caller can name: two of its own, and the ones start has returned.
TaskIds == {"t1", "t2"} \cup {CreateId(x) : x \in TaskTexts}

\* currentTask = null
NoTask == [id |-> "null", title |-> <<>>, file |-> <<>>, line |-> 0, status |-> "null"]

KiroTask(id, x, st) ==
    [id |-> id, title |-> x.title, file |-> x.file, line |-> x.line, status |-> st]

\* Array.prototype.filter((t) => t.id !== id)
WithoutId(q, id) == SelectSeq(q, LAMBDA t : t.id # id)

QueuedIds(q) == {q[i].id : i \in 1..Len(q)}

\* start: task.id || this.createId(task)
TaskStart(tm, id, x) ==
    LET tid == IF id = NoId \/ id = "" THEN CreateId(x) ELSE id
    IN  [currentTask |-> KiroTask(tid, x, "current"),
         queue |-> WithoutId(tm.queue, tid)]

\* enqueue: the queue is searched for task.id, the id is made up after that.
TaskEnqueue(tm, id, x) ==
    IF id \in QueuedIds(tm.queue)
    THEN tm
    ELSE [tm EXCEPT !.queue = Append(@, KiroTask(IF id = NoId THEN CreateId(x) ELSE id,
                                               x, "queued"))]

\* complete that takes the task out of the queue only when it was current
TaskCompleteCurrentOnly(tm, id) ==
    IF tm.currentTask # NoTask /\ tm.currentTask.id = id
    THEN [currentTask |-> NoTask, queue |-> WithoutId(tm.queue, id)]
    ELSE tm

TaskComplete(tm, id) ==
    [currentTask |-> IF tm.currentTask # NoTask /\ tm.currentTask.id = id
                     THEN NoTask ELSE tm.currentTask,
     queue |-> WithoutId(tm.queue, id)]

TaskClearQueue(tm) == [tm EXCEPT !.queue = <<>>]

TaskRemoveFromQueue(tm, id) == [tm EXCEPT !.queue = WithoutId(@, id)]

\* After the constructor, with nothing stored in the workspace state.
TaskManagerInit == [currentTask |-> NoTask, queue |-> <<>>]

(***************************************************************************)
(* HooksStatusProvider (views/HooksStatus.ts).                             *)
(***************************************************************************)
\* The ids of getDefaultHooks, and an id no hook has.
PanelHookIds == {"pre-commit-lint", "post-save-analyze", "pre-push-test"}
UnknownHookId == "no-such-hook"

\* getDefaultHooks: enabled, status and lastExecuted, which is left out, a
\* Date, or the string a Date becomes in hooks.json.
DefaultHooks ==
    [id \in PanelHookIds |->
        IF id = "pre-push-test"
        THEN [enabled |-> FALSE, status |-> "disabled", lastExecuted |-> "undefined"]
        ELSE [enabled |-> TRUE, status |-> "active", lastExecuted |-> "undefined"]]

\* JSON.parse(JSON.stringify(hook)): a Date comes back as a string.
HookJson(h) ==
    [h EXCEPT !.lastExecuted = IF @ = "Date" THEN "string" ELSE @]

\* After the constructor in a workspace without .kiro/hooks: loadHooks has
\* taken the default hooks and saved them. hooks is this.hooks, disk the
\* content of hooks.json, runs the executeHook calls in their await, each with
\* the hook it found: attached while that object is still in this.hooks.
HooksStatusInit ==
    [hooks |-> DefaultHooks,
     disk |-> [id \in PanelHookIds |-> HookJson(DefaultHooks[id])],
     runs |-> EmptyBag]

\* saveHooks: this.hooks is written to hooks.json.
SaveHooks(p) ==
    [p EXCEPT !.disk = [id \in PanelHookIds |-> HookJson(p.hooks[id])]]

\* The objects of this.hooks are replaced: no call in its await holds one any more.
Detached(runs) ==
    [r \in {[id |-> x.id, attached |-> FALSE] : x \in BagToSet(runs)} |->
        CopiesIn(r, runs) + CopiesIn([r EXCEPT !.attached = TRUE], runs)]

\* refresh that only fires the change event and keeps this.hooks
LoadHooksKeepsObjects(p) == p

\* loadHooks with hooks.json in place: this.hooks = JSON.parse(content).
LoadHooks(p) ==
    [p EXCEPT !.hooks = p.disk, !.runs = Detached(p.runs)]

\* refresh: loadHooks, then the change event.
Refresh(p) == LoadHooks(p)

ToggleHook(p, id) ==
    IF id \notin PanelHookIds THEN p
    ELSE LET enabled == ~p.hooks[id].enabled
         IN  Refresh(SaveHooks(
                [p EXCEPT !.hooks[id].enabled = enabled,
                          !.hooks[id].status = IF enabled THEN "active" ELSE "disabled"]))

\* executeHook up to its await: the hook is found, marked pending, refresh.
PanelExecuteHook(p, id) ==
    IF id \notin PanelHookIds THEN p
    ELSE Refresh([p EXCEPT !.hooks[id].status = "pending",
                           !.runs = @ (+) SetToBag({[id |-> id, attached |-> TRUE]})])

\* The timer of call r has fired: status and lastExecuted of the hook the call
\* found, the notification, saveHooks, refresh.
PanelExecuteHookDone(p, r) ==
    LET p1 == [p EXCEPT !.runs = @ (-) SetToBag({r})]
        p2 == IF r.attached
              THEN [p1 EXCEPT !.hooks[r.id].status = "active",
                              !.hooks[r.id].lastExecuted = "Date"]
              ELSE p1
    IN  Refresh(SaveHooks(p2))

\* The try block of call r has thrown after the timer: the catch, saveHooks,
\* refresh.
PanelExecuteHookCatch(p, r) ==
    LET p1 == [p EXCEPT !.runs = @ (-) SetToBag({r})]
        p2 == IF r.attached
              THEN [p1 EXCEPT !.hooks[r.id].status = "error"]
              ELSE p1
    IN  Refresh(SaveHooks(p2))

(***************************************************************************)
(* HookBuilderService.validateHook (services/TaskManager.ts).              *)
(***************************************************************************)
\* A property that may be left out: undefined, or a string.
Missing == [some |-> FALSE, val |-> <<>>]
Given(v) == [some |-> TRUE, val |-> v]

\* "!s || s.trim().length === 0"
LeftOutOrBlank(s) == ~s.some \/ s.val = <<>> \/ Trim(s.val) = <<>>

ValidPrefixes == {"askAgent:", "runCommand:", "sendChat:"}

\* The loop over hook.actions, from action k on.
RECURSIVE ValidateActions(_, _, _, _)
ValidateActions(errors, actions, trigger, k) ==
    IF k > Len(actions) THEN errors
    ELSE LET action == actions[k]
             hasValidPrefix == \E prefix \in ValidPrefixes : StartsWith(action, prefix)
         IN  IF action = <<>> \/ Trim(action) = <<>>
             THEN ValidateActions(Append(errors, "Action cannot be empty"),
                                  actions, trigger, k + 1)
             ELSE IF ~hasValidPrefix /\ trigger # "custom"
             THEN ValidateActions(Append(errors, "Action should start with one of: askAgent:, runCommand:, sendChat:"),
                                  actions, trigger, k + 1)
             ELSE ValidateActions(errors, actions, trigger, k + 1)

\* The checks before the loop.
ValidateFields(hook) ==
    LET e1 == IF LeftOutOrBlank(hook.name)
              THEN <<"Hook name is required">> ELSE <<>>
        e2 == IF LeftOutOrBlank(hook.description)
              THEN Append(e1, "Hook description is required") ELSE e1
        e3 == IF ~hook.actions.some \/ Len(hook.actions.val) = 0
              THEN Append(e2, "Hook must have at least one action") ELSE e2
        e4 == IF hook.trigger = ""
              THEN Append(e3, "Hook trigger type is required") ELSE e3
    IN  IF hook.trigger \notin Triggers
        THEN Append(e4, "Invalid trigger type. Must be one of: pre-commit, post-save, pre-push, on-start, custom") ELSE e4

\* validateHook asking for a prefix whatever the trigger is
ValidateHookPrefixAlways(hook) ==
    IF ~hook.actions.some
    THEN [outcome |-> "throws", isValid |-> FALSE, errors |-> <<>>]
    ELSE LET errors == ValidateActions(ValidateFields(hook), hook.actions.val,
                                       "any", 1)
         IN  [outcome |-> "returns", isValid |-> Len(errors) = 0, errors |-> errors]

\* validateHook: "for (const action of hook.actions)" throws a TypeError when
\* the action list is left out.
ValidateHook(hook) ==
    IF ~hook.actions.some
    THEN [outcome |-> "throws", isValid |-> FALSE, errors |-> <<>>]
    ELSE LET errors == ValidateActions(ValidateFields(hook), hook.actions.val,
                                       hook.trigger, 1)
         IN  [outcome |-> "returns", isValid |-> Len(errors) = 0, errors |-> errors]

\* The hooks given to validateHook.
DraftNames == {Missing, Given(<<>>), Given(<<" ">>), Given(<<"Lint", " ", "Hook">>)}
DraftDescriptions == {Missing, Given(<<" ", " ">>), Given(<<"Run", " ", "lint">>)}
DraftTriggers == Triggers \cup {"", "on-save"}
DraftActions ==
    {Missing, Given(<<>>),
     Given(<< <<"runCommand:", "npm", " ", "test">> >>),
     Given(<< <<"npm", " ", "test">> >>),
     Given(<< <<" ">> >>),
     Given(<< <<>> >>),
     Given(<< <<" ", "runCommand:", "npm">> >>),
     Given(<< <<"askAgent:", "review">>, <<"sendChat:", "done">> >>),
     Given(<< <<"askAgent:", "review">>, <<"npm", " ", "test">> >>),
     Given(<< <<"npm", " ", "test">>, <<" ">> >>)}
Drafts ==
    [name : DraftNames, description : DraftDescriptions, trigger : DraftTriggers,
     actions : DraftActions]

NotValidated == [outcome |-> "none", isValid |-> FALSE, errors |-> <<>>]
NoDraft == [name |-> Missing, description |-> Missing, trigger |-> "",
            actions |-> Missing]

\* The services after their construction, nothing validated yet.
ServicesInit ==
    /\ taskManager = TaskManagerInit
    /\ hooksStatus = HooksStatusInit
    /\ hookBuilder = [hook |-> NoDraft, validation |-> NotValidated]

(***************************************************************************)
(* The state machine.                                                      *)
(***************************************************************************)
\* The engine after construction.
EngineInit ==
    /\ activeHooks = [id \in HookIds |-> None]
    /\ fileWatchers = [id \in HookIds |-> 0]
    /\ watchers = <<>>
    /\ executionQueue = <<>>
    /\ isExecuting = FALSE
    /\ loops = {}
    /\ status = [o \in HookObjs |-> HookOf(o).status]
    /\ lastExecuted = [o \in HookObjs |-> 0]
    /\ notifications = EmptyBag
    /\ enqueued = 0
    /\ dropped = {}

Call(op, arg, result) == [op |-> op, arg |-> arg, result |-> result]
Unobserved == Call("unobserved", "-", "-")
NoCall == Call("none", "-", "-")

\* A step to engine r; call says which step it is and how it ends for its caller.
Step(r, call) ==
    /\ WithinBounds(r)
    /\ Commit(r)
    /\ lastCall' = IF lastCall = Unobserved THEN lastCall ELSE call
    /\ UNCHANGED <<hooks, taskManager, hooksStatus, hookBuilder>>

\* registerHook(o); createFileSystemWatcher succeeds, or throws for the hook's
\* first pattern.
Register(o) ==
    \E failAt \in {0, 1} :
        /\ failAt <= Len(GetHookPatterns(o))
        /\ Step(RegisterHook(Engine, o, failAt),
                Call("registerHook", o,
                     IF ~HookOf(o).enabled THEN "skipped"
                     ELSE IF failAt # 0 THEN "failed" ELSE "registered"))

Unregister(id) ==
    Step(UnregisterHook(Engine, id), Call("unregisterHook", id, "returns"))

DisposeEngine == Step(Dispose(Engine), Call("dispose", "-", "returns"))

\* The event source reports a file event; the engine listens to changes only.
FileEvent(rel, kind) ==
    Step(IF kind = "change" THEN FireChange(Engine, watchers, rel) ELSE Engine,
         Call("fileEvent", kind, "returns"))

Trigger(id, d) ==
    Step(TriggerHook(Engine, id, d),
         Call("triggerHook", id,
              IF TriggerHookFound(Engine, id) THEN "returns" ELSE "throws"))

ActionReturns(l) ==
    /\ l.pc = "action"
    /\ Step(ActionSettles(Engine, l, FALSE), Call("action", l.exec.hook, "returns"))

ActionRaises(l) ==
    /\ l.pc = "action"
    /\ Step(ActionSettles(Engine, l, TRUE), Call("action", l.exec.hook, "throws"))

Resume(l) ==
    /\ l.pc = "resume"
    /\ Step(ResumeLoop(Engine, l), Call("resume", "-", "returns"))

Retry(n) ==
    Step(NotificationAnswered(Engine, n, "Retry"), Call("answer", n.hook, "Retry"))

Dismiss(n) ==
    Step(NotificationAnswered(Engine, n, "Dismiss"), Call("answer", n.hook, "Dismiss"))

\* The command running in terminal i ends.
CommandExits(i, code) ==
    /\ terminals.list[i].exit = "running"
    /\ Step(CommandEnds(Engine, i, code),
            Call("commandExit", terminals.list[i].hook, code))

\* getHook(id), with what it returns.
QueryHook(id) ==
    Step(Engine, Call("getHook", id, GetHook(Engine, id)))

\* getActiveHooks().
QueryActiveHooks ==
    Step(Engine, Call("getActiveHooks", "-", "returns"))

\* A suspended consumer continues.
Consumer ==
    \E l \in loops : ActionReturns(l) \/ ActionRaises(l) \/ Resume(l)

Next ==
    \/ \E o \in hooks : Register(o)
    \/ \E id \in HookIds : Unregister(id)
    \/ DisposeEngine
    \/ \E rel \in Paths, kind \in {"change", "create"} : FileEvent(rel, kind)
    \/ \E id \in HookIds, d \in ManualInputs : Trigger(id, d)
    \/ \E l \in loops : ActionReturns(l)
    \/ \E l \in loops : ActionRaises(l)
    \/ \E l \in loops : Resume(l)
    \/ \E n \in BagToSet(notifications) : Retry(n)
    \/ \E n \in BagToSet(notifications) : Dismiss(n)

\* An on-start hook, a post-save hook and a disabled hook.
Init ==
    /\ hooks = {"oStart", "oSave", "oOff"}
    /\ lastCall = Unobserved
    /\ terminals = TerminalsUntracked
    /\ EngineInit
    /\ ServicesInit

Spec == Init /\ [][Next]_vars

\* A post-save hook and a disabled hook.
InitLive ==
    /\ hooks = {"oSave", "oOff"}
    /\ lastCall = Unobserved
    /\ terminals = TerminalsUntracked
    /\ EngineInit
    /\ ServicesInit

\* The event loop runs every continuation whose await has ended.
SpecLive == InitLive /\ [][Next]_vars /\ WF_vars(Consumer)

\* A post-save hook and a disabled hook, each step observed.
InitCalls ==
    /\ hooks = {"oSave", "oOff"}
    /\ lastCall = NoCall
    /\ terminals = TerminalsUntracked
    /\ EngineInit
    /\ ServicesInit

SpecCalls == InitCalls /\ [][Next]_vars

\* A custom hook with two actions and a custom hook with none.
InitCustom ==
    /\ hooks = {"oCustom", "oEmpty"}
    /\ lastCall = Unobserved
    /\ terminals = TerminalsUntracked
    /\ EngineInit
    /\ ServicesInit

SpecCustom == InitCustom /\ [][Next]_vars

\* A pre-commit hook with two actions and an on-start hook, each step observed:
\* neither has a watcher, executions come from triggerHook and Retry.
InitManual ==
    /\ hooks = {"oGit", "oStart"}
    /\ lastCall = NoCall
    /\ terminals = TerminalsUntracked
    /\ EngineInit
    /\ ServicesInit

SpecManual == InitManual /\ [][Next]_vars

\* One hook, drawn from those whose actions cover the prefixes: sendChat:,
\* askAgent: and runCommand:, and actions with no prefix.
InitDispatch ==
    /\ hooks \in {{"oStart"}, {"oGit"}, {"oCustom"}}
    /\ lastCall = Unobserved
    /\ terminals = TerminalsUntracked
    /\ EngineInit
    /\ ServicesInit

SpecDispatch == InitDispatch /\ [][Next]_vars

\* One hook whose actions all go to the terminal, the terminals followed: a
\* runCommand: action, or two actions without a prefix.
InitCommands ==
    /\ hooks \in {{"oSave"}, {"oCustom"}}
    /\ lastCall = Unobserved
    /\ terminals = TerminalsTracked
    /\ EngineInit
    /\ ServicesInit

NextCommands ==
    \/ Next
    \/ \E i \in 1..Len(terminals.list), code \in ExitCodes : CommandExits(i, code)

SpecCommands == InitCommands /\ [][NextCommands]_vars

\* Each step observed, the queries among the steps: a hook with watchers, or
\* two hooks under one id, a disabled and an enabled one or two enabled ones.
InitRegistry ==
    /\ hooks \in {{"oSave"}, {"oOff", "oGit"}, {"oStart", "oEmpty"}}
    /\ lastCall = NoCall
    /\ terminals = TerminalsUntracked
    /\ EngineInit
    /\ ServicesInit

NextRegistry ==
    \/ Next
    \/ \E id \in HookIds : QueryHook(id)
    \/ QueryActiveHooks

SpecRegistry == InitRegistry /\ [][NextRegistry]_vars

\* A step of the task manager to state tm: save() and the change event follow
\* every change and touch nothing else.
TaskStep(tm, call) ==
    /\ taskManager' = tm
    /\ lastCall' = call
    /\ Commit(Engine)
    /\ UNCHANGED <<hooks, hooksStatus, hookBuilder>>

StartTask(id, x) ==
    TaskStep(TaskStart(taskManager, id, x), Call("start", id, "returns"))

EnqueueTask(id, x) ==
    TaskStep(TaskEnqueue(taskManager, id, x), Call("enqueue", id, "returns"))

CompleteTask(id) ==
    TaskStep(TaskComplete(taskManager, id), Call("complete", id, "returns"))

ClearTaskQueue ==
    TaskStep(TaskClearQueue(taskManager), Call("clearQueue", "-", "returns"))

RemoveTaskFromQueue(id) ==
    TaskStep(TaskRemoveFromQueue(taskManager, id), Call("removeFromQueue", id, "returns"))

\* The task manager alone, each call observed.
InitTasks ==
    /\ hooks = {}
    /\ lastCall = NoCall
    /\ terminals = TerminalsUntracked
    /\ EngineInit
    /\ ServicesInit

NextTasks ==
    \/ \E id \in TaskIds \cup {NoId}, x \in TaskTexts : StartTask(id, x)
    \/ \E id \in TaskIds, x \in TaskTexts : EnqueueTask(id, x)
    \/ \E id \in TaskIds : CompleteTask(id)
    \/ ClearTaskQueue
    \/ \E id \in TaskIds : RemoveTaskFromQueue(id)

SpecTasks == InitTasks /\ [][NextTasks]_vars

\* A step of the hooks panel to state p, no more than MaxRuns executeHook
\* calls waiting for their timers.
PanelStep(p, call) ==
    /\ BagCardinality(p.runs) <= MaxRuns
    /\ hooksStatus' = p
    /\ lastCall' = call
    /\ Commit(Engine)
    /\ UNCHANGED <<hooks, taskManager, hookBuilder>>

PanelToggle(id) ==
    PanelStep(ToggleHook(hooksStatus, id), Call("toggleHook", id, "returns"))

PanelExecute(id) ==
    PanelStep(PanelExecuteHook(hooksStatus, id), Call("executeHook", id, "awaits"))

PanelTimer(r) ==
    PanelStep(PanelExecuteHookDone(hooksStatus, r), Call("executeHook", r.id, "returns"))

PanelThrows(r) ==
    PanelStep(PanelExecuteHookCatch(hooksStatus, r), Call("executeHook", r.id, "caught"))

\* The hooks panel alone, each step observed.
InitPanel ==
    /\ hooks = {}
    /\ lastCall = NoCall
    /\ terminals = TerminalsUntracked
    /\ EngineInit
    /\ ServicesInit

NextPanel ==
    \/ \E id \in PanelHookIds \cup {UnknownHookId} : PanelToggle(id)
    \/ \E id \in PanelHookIds \cup {UnknownHookId} : PanelExecute(id)
    \/ \E r \in BagToSet(hooksStatus.runs) : PanelTimer(r)
    \/ \E r \in BagToSet(hooksStatus.runs) : PanelThrows(r)

SpecPanel == InitPanel /\ [][NextPanel]_vars

\* validateHook is called for the hook at hand.
Validate ==
    /\ hookBuilder.validation = NotValidated
    /\ hookBuilder' = [hookBuilder EXCEPT !.validation = ValidateHook(hookBuilder.hook)]
    /\ lastCall' = Call("validateHook", "-", hookBuilder'.validation.outcome)
    /\ Commit(Engine)
    /\ UNCHANGED <<hooks, taskManager, hooksStatus>>

\* Any of the hooks, not validated yet.
InitValidate ==
    /\ hooks = {}
    /\ lastCall = NoCall
    /\ terminals = TerminalsUntracked
    /\ EngineInit
    /\ taskManager = TaskManagerInit
    /\ hooksStatus = HooksStatusInit
    /\ hookBuilder \in [hook : Drafts, validation : {NotValidated}]

NextValidate == Validate

SpecValidate == InitValidate /\ [][NextValidate]_vars

(***************************************************************************)
(* Properties.                                                             *)
(***************************************************************************)
\* The executions in progress: started and not yet returned from executeHook.
Running == {l \in loops : l.pc = "action"}

QueueIndices == 1..Len(executionQueue)
InQueue(n) == \E i \in QueueIndices : executionQueue[i].seq = n
Idle == executionQueue = <<>> /\ ~isExecuting /\ loops = {}

\* C1 (serialization): in every reachable state at most one consumer loop is
\* alive, so at most one hook execution is in progress, and a live loop has
\* the consumer flag set.
C1_Serialization ==
    /\ Cardinality(loops) <= 1
    /\ Cardinality(Running) <= 1
    /\ loops # {} => isExecuting

\* An execution is in progress while entries of two producers (triggerHook and
\* a watcher callback) wait behind it.
C1_Witness ==
    /\ Running # {}
    /\ \E i, j \in QueueIndices :
          /\ executionQueue[i].trigger = "manual"
          /\ executionQueue[j].trigger = "fileChanged"

\* C2 (FIFO): executions start in the order of their enqueues: the waiting
\* entries are in enqueue order, and every execution that has started (it is in
\* progress, or it set its hook's lastExecuted) was enqueued before every entry
\* that still waits.
C2_Fifo ==
    /\ \A i, j \in QueueIndices :
          i < j => executionQueue[i].seq < executionQueue[j].seq
    /\ \A i \in QueueIndices :
          /\ \A l \in Running : l.exec.seq < executionQueue[i].seq
          /\ \A o \in HookObjs : lastExecuted[o] < executionQueue[i].seq

\* The second enqueue, made while the first execution was running, has started
\* and the third, of another hook, waits behind it.
C2_Witness ==
    \E l \in Running :
        /\ l.exec.seq = 2
        /\ executionQueue # <<>>
        /\ Head(executionQueue).seq = 3
        /\ Head(executionQueue).hook # l.exec.hook

\* C3 (failure isolation): when an action of the running execution raises, the
\* consumer loop stays alive with the flag set and the queue as it was; when
\* the loop continues it takes the queue's head and starts it, and with the
\* queue empty it clears the flag and ends.
C3_FailureIsolation ==
    [][\A l \in loops :
          /\ ActionRaises(l) =>
                /\ isExecuting'
                /\ loops' = {AwaitingExecuteHook}
                /\ executionQueue' = executionQueue
                /\ status'[l.exec.hook] = "error"
          /\ (Resume(l) /\ executionQueue # <<>>) =>
                /\ isExecuting'
                /\ Cardinality(loops') = 1
                /\ executionQueue' = Tail(executionQueue)
                /\ lastExecuted'[Head(executionQueue).hook] = Head(executionQueue).seq
          /\ (Resume(l) /\ executionQueue = <<>>) =>
                /\ ~isExecuting'
                /\ loops' = {}
      ]_vars

\* The execution started last has failed, its consumer is about to continue and
\* the next execution waits.
C3_Witness ==
    /\ loops = {AwaitingExecuteHook}
    /\ executionQueue # <<>>
    /\ \E o \in hooks :
          /\ status[o] = "error"
          /\ lastExecuted[o] = Head(executionQueue).seq - 1

\* Execution n was taken from the queue and executeHook has returned for it.
Executed(n) ==
    /\ n <= enqueued
    /\ ~InQueue(n)
    /\ n \notin dropped
    /\ \A l \in loops : l.exec.seq # n

\* C4 as claimed (no lost events): every execution appended to the queue is
\* eventually taken from it and executed, and the engine gets back to an empty
\* queue with the consumer flag cleared.
C4_AsClaimed ==
    (~Idle) ~> (Idle /\ \A n \in 1..enqueued : Executed(n))

\* C4 amended: every execution appended to the queue is eventually taken from
\* it and executed unless dispose() discards it while it waits, and the engine
\* gets back to an empty queue with the consumer flag cleared.
C4_NoLostEvents ==
    (~Idle) ~> (Idle /\ \A n \in 1..enqueued : Executed(n) \/ n \in dropped)

\* Three executions were appended while the consumer was busy and all three
\* have been executed.
C4_Witness ==
    /\ enqueued = MaxEnq
    /\ Idle
    /\ dropped = {}
    /\ \A n \in 1..MaxEnq : Executed(n)
    /\ \E o \in hooks : lastExecuted[o] = MaxEnq /\ status[o] = "active"

\* The executions waiting or in progress after a step, and those among them
\* that the step appended for hook o.
EntriesAfter ==
    {executionQueue'[i] : i \in 1..Len(executionQueue')} \cup {l.exec : l \in loops'}
AppendedFor(o) == {e \in EntriesAfter : e.hook = o /\ e.seq > enqueued}

\* C5 (on-start): registering an enabled on-start hook appends exactly one
\* execution, labelled "onStart", in the registerHook call itself, and an
\* onStart execution's sendChat action is a call of the chat sink.
C5_OnStartQueuedAtRegistration ==
    /\ [][\A o \in hooks :
            (HookOf(o).trigger = "on-start" /\ HookOf(o).enabled /\ Register(o)) =>
                /\ enqueued' = enqueued + 1
                /\ \E e \in AppendedFor(o) : e.trigger = "onStart"
         ]_vars
    /\ [](\A l \in Running :
            (l.exec.trigger = "onStart"
                /\ StartsWith(HookOf(l.exec.hook).actions[l.idx], "sendChat:"))
            => PendingCall(l).sink = "chat")

\* C6 (unregister disposes): when unregisterHook(id) returns, no watcher created
\* for a hook with that id is still subscribed.
C6_UnregisterDisposesAll ==
    [][\A id \in HookIds :
          Unregister(id) =>
              \A i \in 1..Len(watchers') : HookOf(watchers'[i].hook).id # id
      ]_vars

\* C7 (disabled hooks never enqueue): a hook object with enabled = false is never
\* stored in the registry, has no watcher, and has no execution waiting, in
\* progress, started before or offered for retry.
C7_DisabledNeverEnqueue ==
    \A o \in hooks :
        ~HookOf(o).enabled =>
            /\ \A id \in HookIds : activeHooks[id] # o
            /\ \A i \in 1..Len(watchers) : watchers[i].hook # o
            /\ \A i \in QueueIndices : executionQueue[i].hook # o
            /\ \A l \in loops : l.exec.hook # o
            /\ \A n \in BagToSet(notifications) : n.hook # o
            /\ lastExecuted[o] = 0
            /\ status[o] = HookOf(o).status

\* registerHook has just returned for the disabled hook, while another hook's
\* watchers are subscribed and change events have enqueued that hook.
C7_Witness ==
    /\ lastCall = Call("registerHook", "oOff", "skipped")
    /\ watchers # <<>>
    /\ enqueued > 0

\* C8 (unregister cancels nothing): unregisterHook leaves the queue and the
\* execution in progress as they are, and the consumer takes and starts the
\* queue's head whether or not its hook is still registered.
C8_UnregisterKeepsQueue ==
    [][/\ \A id \in HookIds :
             Unregister(id) =>
                 /\ executionQueue' = executionQueue
                 /\ loops' = loops
                 /\ isExecuting' = isExecuting
                 /\ dropped' = dropped
       /\ \A l \in loops :
             (Resume(l) /\ executionQueue # <<>>) =>
                 LET e == Head(executionQueue)
                 IN  /\ executionQueue' = Tail(executionQueue)
                     /\ lastExecuted'[e.hook] = e.seq
                     /\ \E l2 \in loops' : l2.exec = e \/ Len(HookOf(e.hook).actions) = 0
      ]_vars

\* The first execution is still in progress (so nothing has failed or been
\* retried), and behind it waits an execution that triggerHook appended for a
\* hook that has been unregistered since.
C8_Witness ==
    /\ \E l \in Running : l.exec.seq = 1
    /\ executionQueue # <<>>
    /\ Head(executionQueue).trigger = "manual"
    /\ activeHooks[HookOf(Head(executionQueue).hook).id] = None

\* C9 (re-registration replaces): registering an enabled hook under an id that is
\* registered stores the new definition and leaves no more watchers subscribed
\* for the id than the hook has patterns.
C9_ReRegisterReplaces ==
    [][\A o \in hooks :
          (HookOf(o).enabled /\ activeHooks[HookOf(o).id] # None /\ Register(o)) =>
              /\ activeHooks'[HookOf(o).id] = o
              /\ Cardinality({i \in 1..Len(watchers') :
                                 HookOf(watchers'[i].hook).id = HookOf(o).id})
                     <= Len(GetHookPatterns(o))
      ]_vars

\* C10 (once per change event): one change event appends at most one execution
\* of a hook.
C10_OncePerChangeEvent ==
    [][\A rel \in Paths :
          FileEvent(rel, "change") =>
              \A o \in hooks : Cardinality(AppendedFor(o)) <= 1
      ]_vars

\* The engine's own state, without the host's hook objects and the observation.
engineVars == <<activeHooks, fileWatchers, watchers, executionQueue, isExecuting,
                loops, status, lastExecuted, notifications, enqueued, dropped>>

\* getActiveHooks(): the registry's values.
GetActiveHooks == {activeHooks[id] : id \in HookIds} \ {None}

\* C11 (empty actions rejected): a hook with an empty actions list is never
\* stored in the registry, never returned by getActiveHooks(), never queued and
\* never executed.
C11_EmptyActionsRejected ==
    \A o \in hooks :
        Len(HookOf(o).actions) = 0 =>
            /\ o \notin GetActiveHooks
            /\ \A i \in QueueIndices : executionQueue[i].hook # o
            /\ \A l \in loops : l.exec.hook # o
            /\ lastExecuted[o] = 0

\* C12 (triggerHook): triggerHook for an id that is not registered throws and
\* changes nothing in the engine; for a registered id it returns having appended
\* exactly one execution, of the registered hook, with trigger "manual",
\* whatever the hook's configured trigger.
C12_TriggerHook ==
    [][\A id \in HookIds, d \in ManualInputs :
          Trigger(id, d) =>
              IF activeHooks[id] = None
              THEN /\ lastCall'.result = "throws"
                   /\ UNCHANGED engineVars
              ELSE /\ lastCall'.result = "returns"
                   /\ enqueued' = enqueued + 1
                   /\ \A o \in hooks :
                         Cardinality(AppendedFor(o)) = IF o = activeHooks[id] THEN 1 ELSE 0
                   /\ \A e \in AppendedFor(activeHooks[id]) : e.trigger = "manual"
                   /\ UNCHANGED <<activeHooks, fileWatchers, watchers>>
      ]_vars

\* triggerHook has just returned for the registered pre-commit hook, whose
\* execution with trigger "manual" is waiting or in progress.
C12_Witness ==
    /\ lastCall = Call("triggerHook", "h3", "returns")
    /\ activeHooks["h3"] = "oGit"
    /\ HookOf("oGit").trigger = "pre-commit"
    /\ \/ \E i \in QueueIndices : executionQueue[i].seq = enqueued
                                    /\ executionQueue[i].hook = "oGit"
                                    /\ executionQueue[i].trigger = "manual"
       \/ \E l \in Running : l.exec.seq = enqueued /\ l.exec.hook = "oGit"
                               /\ l.exec.trigger = "manual"

\* C13 (idempotent unregister): unregisterHook for an id that is not registered
\* returns without an error and changes nothing in the engine, and
\* unregistering an id twice leaves the engine as unregistering it once does.
C13_IdempotentUnregister ==
    /\ [][\A id \in HookIds :
            (activeHooks[id] = None /\ Unregister(id)) =>
                /\ lastCall'.result = "returns"
                /\ UNCHANGED engineVars
         ]_vars
    /\ [](\A id \in HookIds :
            UnregisterHook(UnregisterHook(Engine, id), id) = UnregisterHook(Engine, id))

\* unregisterHook has just returned for an id that was never registered, while
\* another hook has watchers subscribed and an execution waiting.
C13_Witness ==
    /\ lastCall = Call("unregisterHook", "h1", "returns")
    /\ \A o \in hooks : HookOf(o).id # "h1"
    /\ watchers # <<>>
    /\ executionQueue # <<>>

\* C14 (abort on failure): when an action of an execution raises, no further
\* action of that execution is invoked, the hook's status becomes error, and
\* exactly one failure notification offering Retry for that execution is shown.
C14_AbortOnFailure ==
    [][\A l \in loops :
          ActionRaises(l) =>
              /\ status'[l.exec.hook] = "error"
              /\ notifications' = notifications (+) SetToBag({RetryOffer(l.exec)})
              /\ \A l2 \in loops' : l2.pc = "action" => l2.exec.seq # l.exec.seq
              /\ UNCHANGED <<executionQueue, enqueued, activeHooks, watchers>>
      ]_vars

\* An action of the two-action hook has just raised: status error, one
\* notification open, no action in progress.
C14_Witness ==
    /\ lastCall = Call("action", "oGit", "throws")
    /\ Len(HookOf("oGit").actions) = 2
    /\ status["oGit"] = "error"
    /\ BagCardinality(notifications) = 1
    /\ Running = {}

\* Only an enqueue request (a change event, triggerHook, Retry chosen on a
\* notification, registerHook) appends to the queue; a failing action appends
\* nothing; and the consumer starts only executions never started before.
NoRequeueStep ==
    /\ enqueued' # enqueued =>
          \/ \E rel \in Paths : FileEvent(rel, "change")
          \/ \E id \in HookIds, d \in ManualInputs : Trigger(id, d)
          \/ \E n \in BagToSet(notifications) : Retry(n)
          \/ \E o \in hooks : Register(o)
    /\ \A l \in loops :
          ActionRaises(l) => UNCHANGED <<executionQueue, enqueued>>
    /\ \A l2 \in loops' \ loops :
          (l2.pc = "action" /\ l2.idx = 1) =>
              \A o \in hooks : l2.exec.seq > lastExecuted[o]

\* C15 as claimed (no automatic requeue): a failure appends nothing to the
\* queue, no execution is started twice, and once the engine is idle every
\* appended execution has been executed.
C15_AsClaimed ==
    /\ [][NoRequeueStep]_vars
    /\ [](Idle => \A n \in 1..enqueued : Executed(n))

\* C15 (no automatic requeue): a failure appends nothing to the queue, no
\* execution is started twice, and once the engine is idle every appended
\* execution has been executed, except those dispose() discarded from the queue.
C15_NoAutomaticRequeue ==
    /\ [][NoRequeueStep]_vars
    /\ [](Idle => \A n \in 1..enqueued : Executed(n) \/ n \in dropped)

\* The only execution so far has failed and the engine is idle: the failure
\* notification is open, the queue is empty.
C15_Witness ==
    /\ Idle
    /\ enqueued = 1
    /\ \E o \in hooks : status[o] = "error" /\ lastExecuted[o] = 1
    /\ BagCardinality(notifications) = 1

\* C16 (retry after failure): triggerHook for a registered hook whose status is
\* error appends an execution of it; an execution that is taken from the queue
\* and started puts its hook's status to pending; and when its last action
\* returns the status becomes active.
C16_RetryAfterFailure ==
    [][/\ \A id \in HookIds, d \in ManualInputs :
             (activeHooks[id] # None /\ status[activeHooks[id]] = "error"
                 /\ Trigger(id, d)) =>
                 /\ enqueued' = enqueued + 1
                 /\ \E e \in AppendedFor(activeHooks[id]) :
                       e.trigger = "manual" /\ e.seq = enqueued'
       /\ \A l2 \in loops' \ loops :
             (l2.pc = "action" /\ l2.idx = 1) =>
                 /\ status'[l2.exec.hook] = "pending"
                 /\ lastExecuted'[l2.exec.hook] = l2.exec.seq
       /\ \A l \in loops :
             (ActionReturns(l) /\ l.idx = Len(HookOf(l.exec.hook).actions)) =>
                 status'[l.exec.hook] = "active"
      ]_vars

\* The hook's first execution failed (its notification is still open, so Retry
\* was not chosen); triggerHook appended the second, which has succeeded.
C16_Witness ==
    /\ activeHooks["h3"] = "oGit"
    /\ enqueued = 2
    /\ lastExecuted["oGit"] = 2
    /\ status["oGit"] = "active"
    /\ \E n \in BagToSet(notifications) : n.hook = "oGit"
    /\ BagCardinality(notifications) = 1
    /\ Idle

\* The patterns of the watchers subscribed for hook o, in creation order.
WatchedPatterns(o) ==
    LET ws == SelectSeq(watchers, LAMBDA w : w.hook = o)
    IN  [i \in 1..Len(ws) |-> ws[i].pattern]

\* C17 (post-save): with the post-save hook registered once (its watchers are
\* those of one registration), one change event
\* for src/a.ts appends exactly one execution of it, labelled fileChanged; the
\* execution in progress waits for one call of the terminal with "echo hi"
\* while the status is pending; and when that call returns the status is active.
C17_PostSave ==
    /\ [][/\ (/\ activeHooks["h2"] = "oSave"
              /\ WatchedPatterns("oSave") = GetHookPatterns("oSave")
              /\ FileEvent(PathSrc, "change")) =>
                 /\ enqueued' = enqueued + 1
                 /\ Cardinality(AppendedFor("oSave")) = 1
                 /\ \A e \in AppendedFor("oSave") :
                       e.trigger = "fileChanged" /\ e.data = FileData(PathSrc)
          /\ \A l \in loops :
                (l.exec.hook = "oSave" /\ ActionReturns(l)) =>
                    /\ status'["oSave"] = "active"
                    /\ \A l2 \in loops' : l2.pc = "resume"
         ]_vars
    /\ [](\A l \in Running :
            l.exec.hook = "oSave" =>
                /\ l.idx = 1
                /\ PendingCall(l).sink = "terminal"
                /\ PendingCall(l).text = <<"echo hi">>
                /\ status["oSave"] = "pending")

\* The post-save hook is registered once and was active; the one change event
\* has appended the first execution, which is in progress.
C17_Witness ==
    /\ activeHooks["h2"] = "oSave"
    /\ WatchedPatterns("oSave") = GetHookPatterns("oSave")
    /\ enqueued = 1
    /\ executionQueue = <<>>
    /\ \E l \in Running : l.exec.seq = 1 /\ l.exec.hook = "oSave"
                            /\ l.exec.trigger = "fileChanged"
                            /\ l.exec.data = FileData(PathSrc)

\* C18 (unregister disables): unregisterHook of a registered hook puts its
\* status to disabled, and the status of a hook that is disabled and not in the
\* registry stays disabled in every step but its registration.
C18_UnregisterDisables ==
    [][/\ \A id \in HookIds :
             (activeHooks[id] # None /\ Unregister(id)) =>
                 status'[activeHooks[id]] = "disabled"
       /\ \A o \in hooks :
             (status[o] = "disabled" /\ o \notin GetActiveHooks /\ ~Register(o)) =>
                 status'[o] = "disabled"
      ]_vars

\* C19 (status at registration): when registerHook(hook) returns, the hook's
\* status is active if hook.enabled and disabled if not, whatever it was before.
C19_StatusAtRegistration ==
    [][\A o \in hooks :
          Register(o) =>
              status'[o] = IF HookOf(o).enabled THEN "active" ELSE "disabled"
      ]_vars

\* C20 as claimed (disabled hook recorded): after registerHook of a hook with
\* enabled = false, getHook(id) returns the hook, and no watcher was created.
C20_AsClaimed ==
    [][\A o \in hooks :
          (~HookOf(o).enabled /\ Register(o)) =>
              /\ GetHook([activeHooks |-> activeHooks'], HookOf(o).id) = o
              /\ watchers' = watchers
      ]_vars

\* C20 (disabled hook not recorded): registerHook of a hook with enabled = false
\* changes nothing in the engine: no watcher is created and getHook(id) returns
\* what it returned before, which is never that hook.
C20_DisabledNotRecorded ==
    [][\A o \in hooks :
          (~HookOf(o).enabled /\ Register(o)) =>
              /\ UNCHANGED engineVars
              /\ GetHook([activeHooks |-> activeHooks'], HookOf(o).id) # o
              /\ lastCall'.result = "skipped"
      ]_vars

\* registerHook has just returned for the disabled hook: getHook finds nothing
\* under its id, while the enabled hook registered beside it is found.
C20_Witness ==
    /\ lastCall = Call("registerHook", "oOff", "skipped")
    /\ GetHook(Engine, HookOf("oOff").id) = None
    /\ GetHook(Engine, "h2") = "oSave"

\* C21 (actions in sequence): an execution has at most one action in progress;
\* its first action in progress is the first of the list, and action k + 1 is
\* invoked in the step in which action k returns, never otherwise.
C21_ActionsInSequence ==
    /\ [](\A l1, l2 \in Running : l1.exec.seq = l2.exec.seq => l1 = l2)
    /\ [][\A l2 \in loops' \ loops :
            l2.pc = "action" =>
                \/ /\ l2.idx = 1
                   /\ \A l \in loops : l.exec.seq # l2.exec.seq
                \/ \E l \in loops :
                      /\ l.pc = "action"
                      /\ l.exec = l2.exec
                      /\ l2.idx = l.idx + 1
                      /\ l \notin loops'
                      /\ ActionReturns(l)
         ]_vars

\* The second action of the two-action hook is in progress, the first having
\* returned.
C21_Witness ==
    \E l \in Running :
        /\ l.exec.hook = "oGit"
        /\ l.idx = 2
        /\ PendingCall(l).sink = "terminal"

\* The hooks whose trigger is pre-commit or pre-push.
GitHooks == {o \in hooks : HookOf(o).trigger \in {"pre-commit", "pre-push"}}

\* No watcher belongs to a pre-commit or pre-push hook, and every execution of
\* one, waiting, in progress or offered for retry, carries the trigger "manual".
GitHooksOnlyManual ==
    \A o \in GitHooks :
        /\ \A i \in 1..Len(watchers) : watchers[i].hook # o
        /\ \A i \in QueueIndices :
              executionQueue[i].hook = o => executionQueue[i].trigger = "manual"
        /\ \A l \in Running : l.exec.hook = o => l.exec.trigger = "manual"
        /\ \A n \in BagToSet(notifications) : n.hook = o => n.trigger = "manual"

\* C22 as claimed (git hooks): a pre-commit or pre-push hook has no watcher, and
\* an execution of it is appended to the queue by triggerHook steps only.
C22_AsClaimed ==
    /\ []GitHooksOnlyManual
    /\ [][\A o \in GitHooks :
            AppendedFor(o) # {} =>
                \E id \in HookIds, d \in ManualInputs : Trigger(id, d)
         ]_vars

\* C22 (git hooks): a pre-commit or pre-push hook has no watcher; an execution
\* of it is appended to the queue only by a triggerHook step or by Retry chosen
\* on the failure notification of an earlier execution of it, never by a change
\* event or by registerHook.
C22_GitHooksNotFired ==
    /\ []GitHooksOnlyManual
    /\ [][\A o \in GitHooks :
            AppendedFor(o) # {} =>
                \/ \E id \in HookIds, d \in ManualInputs : Trigger(id, d)
                \/ \E n \in BagToSet(notifications) : n.hook = o /\ Retry(n)
         ]_vars

\* A change event has just been delivered while the pre-commit hook is
\* registered: nothing was ever appended to the queue.
C22_Witness ==
    /\ lastCall = Call("fileEvent", "change", "returns")
    /\ activeHooks["h3"] = "oGit"
    /\ "oGit" \in GitHooks
    /\ enqueued = 0

\* C23 (no deduplication): triggerHook for a hook that has an execution waiting
\* or in progress appends a new, separate entry behind the entries waiting and
\* changes nothing else; and the consumer starts every entry it takes.
C23_NoDeduplication ==
    [][/\ \A id \in HookIds, d \in ManualInputs :
             (/\ activeHooks[id] # None
              /\ \/ \E i \in QueueIndices : executionQueue[i].hook = activeHooks[id]
                 \/ \E l \in Running : l.exec.hook = activeHooks[id]
              /\ Trigger(id, d)) =>
                 /\ Len(executionQueue') = Len(executionQueue) + 1
                 /\ SubSeq(executionQueue', 1, Len(executionQueue)) = executionQueue
                 /\ executionQueue'[Len(executionQueue')].hook = activeHooks[id]
                 /\ executionQueue'[Len(executionQueue')].seq = enqueued + 1
                 /\ loops' = loops
       /\ \A l \in loops :
             (Resume(l) /\ executionQueue # <<>>) =>
                 \E l2 \in loops' : l2.pc = "action" /\ l2.idx = 1
                                      /\ l2.exec = Head(executionQueue)
      ]_vars

\* An execution of the hook appended while an earlier one of the same hook was
\* waiting or in progress is itself in progress, and a third one waits.
C23_Witness ==
    /\ \E l \in Running : l.exec.hook = "oGit" /\ l.exec.seq = 2
    /\ executionQueue # <<>>
    /\ Head(executionQueue).hook = "oGit"
    /\ lastExecuted["oGit"] = 2
    /\ dropped = {}
    /\ notifications = EmptyBag

\* C24 (dispatch by prefix): the action in progress has one collaborator call,
\* made for the execution's hook: the chat for askAgent: (with the event data
\* as context) and for sendChat:, the terminal for runCommand:, each with the
\* text after the prefix; and the terminal with the whole action when the action
\* has none of the three prefixes.
C24_DispatchByPrefix ==
    \A l \in Running :
        LET a == HookOf(l.exec.hook).actions[l.idx]
            c == PendingCall(l)
        IN  /\ c.hook = l.exec.hook
            /\ IF StartsWith(a, "askAgent:")
               THEN c.sink = "chat" /\ c.text = Tail(a) /\ c.context = l.exec.data
               ELSE IF StartsWith(a, "runCommand:")
               THEN c.sink = "terminal" /\ c.text = Tail(a)
               ELSE IF StartsWith(a, "sendChat:")
               THEN c.sink = "chat" /\ c.text = Tail(a) /\ c.context = NoData
               ELSE c.sink = "terminal" /\ c.text = a

\* An action with no prefix is in progress: the terminal is sent the action.
C24_Witness ==
    \E l \in Running :
        /\ l.exec.hook = "oCustom"
        /\ ~StartsWith(HookOf("oCustom").actions[l.idx], "runCommand:")
        /\ PendingCall(l).sink = "terminal"
        /\ PendingCall(l).text = HookOf("oCustom").actions[l.idx]

C26_ConsumerFlag ==
    /\ [](/\ ~isExecuting => executionQueue = <<>>
          /\ isExecuting <=> loops # {})
    /\ [][/\ (isExecuting /\ ~isExecuting') =>
                \E l \in loops : l.pc = "resume" /\ executionQueue = <<>> /\ Resume(l)
          /\ (~isExecuting /\ enqueued' # enqueued) =>
                /\ isExecuting'
                /\ \E l \in loops' : l.pc = "resume" \/ l.exec.seq = enqueued + 1
         ]_vars

\* triggerHook has just appended the second execution, which is already in
\* progress: the first drain had ended and this enqueue started a new one.
C26_Witness ==
    /\ lastCall = Call("triggerHook", "h2", "returns")
    /\ enqueued = 2
    /\ isExecuting
    /\ executionQueue = <<>>
    /\ \E l \in Running : l.exec.seq = 2 /\ l.idx = 1

\* C27 (enqueue while running): a triggerHook call or a Retry made while the
\* flag is set appends one entry behind the waiting ones, and a change event
\* appends its entries there; none of them starts a consumer or changes the
\* execution in progress, the flag, the registry, the watchers or a status.
C27_EnqueueWhileRunning ==
    [][(isExecuting /\ enqueued' # enqueued) =>
          /\ Len(executionQueue') = Len(executionQueue) + (enqueued' - enqueued)
          /\ SubSeq(executionQueue', 1, Len(executionQueue)) = executionQueue
          /\ \A i \in (Len(executionQueue) + 1)..Len(executionQueue') :
                executionQueue'[i].seq = enqueued + (i - Len(executionQueue))
          /\ UNCHANGED <<loops, isExecuting, activeHooks, fileWatchers, watchers,
                         status, lastExecuted, dropped>>
          /\ \/ \E rel \in Paths : FileEvent(rel, "change")
             \/ enqueued' = enqueued + 1
      ]_vars

\* The first execution is in progress and two enqueues made meanwhile wait
\* behind it in their order.
C27_Witness ==
    /\ \E l \in Running : l.exec.seq = 1
    /\ Len(executionQueue) = 2
    /\ executionQueue[1].seq = 2
    /\ executionQueue[2].seq = 3
    /\ Cardinality(loops) = 1

\* C28 (pending while running): a hook's status is pending exactly while an
\* execution of it is in progress; in particular no hook is pending while the
\* engine is idle, and a hook whose execution only waits in the queue is not
\* pending on that account.
C28_PendingWhileRunning ==
    \A o \in hooks :
        status[o] = "pending" <=> \E l \in Running : l.exec.hook = o

\* One hook's execution is in progress and that hook is pending, while another
\* hook has an execution waiting and is still active.
C28_Witness ==
    \E l \in Running, i \in QueueIndices :
        /\ status[l.exec.hook] = "pending"
        /\ executionQueue[i].hook # l.exec.hook
        /\ status[executionQueue[i].hook] = "active"

\* C29 (active on success, lastExecuted at start): the execution in progress is
\* the one its hook's lastExecuted names; when its last action returns the status
\* becomes active, and when an action raises the status becomes error, in both
\* cases with lastExecuted left at the value set when the execution started.
C29_LastExecutedAtStart ==
    /\ [](\A l \in Running : lastExecuted[l.exec.hook] = l.exec.seq)
    /\ [][\A l \in loops :
            /\ (ActionReturns(l) /\ l.idx = Len(HookOf(l.exec.hook).actions)) =>
                  /\ status'[l.exec.hook] = "active"
                  /\ lastExecuted'[l.exec.hook] = l.exec.seq
            /\ ActionRaises(l) =>
                  /\ status'[l.exec.hook] = "error"
                  /\ lastExecuted'[l.exec.hook] = l.exec.seq
         ]_vars

\* The hook's second execution has failed: the engine is idle, the status is
\* error and lastExecuted is that of the second execution.
C29_Witness ==
    /\ Idle
    /\ enqueued = 2
    /\ \E o \in hooks : status[o] = "error" /\ lastExecuted[o] = 2

\* The hooks with trigger custom, and whether a change of file rel, delivered in
\* the current state, appends an execution of hook o.
CustomHooks == {o \in hooks : HookOf(o).trigger = "custom"}
EnqueuedByChange(o, rel) ==
    LET r == FireChange(Engine, watchers, rel)
    IN  \/ \E i \in 1..Len(r.executionQueue) :
              r.executionQueue[i].hook = o /\ r.executionQueue[i].seq > enqueued
        \/ \E l \in r.loops : l.exec.hook = o /\ l.exec.seq > enqueued

\* A custom hook without actions has no watcher, no change enqueues it, and
\* registering it only stores it.
EmptyCustomInert ==
    \A o \in CustomHooks :
        Len(HookOf(o).actions) = 0 =>
            /\ WatchedPatterns(o) = <<>>
            /\ \A rel \in Paths : ~EnqueuedByChange(o, rel)
            /\ RegisterHook(Engine, o, 0) = [Engine EXCEPT !.activeHooks[HookOf(o).id] = o]

AllToTerminal(o) ==
    \A i \in 1..Len(HookOf(o).actions) :
        ExecuteAction(o, HookOf(o).actions[i], NoData).sink = "terminal"

\* C31 (command outcome not observed): whenever the consumer waits for the
\* last action of an execution of a hook whose actions are all runCommand: or
\* unprefixed, the action having been sent to the terminal without raising
\* leaves the hook with status active; and the end of a command in any
\* terminal, whatever its exit code, changes nothing in the engine: no status,
\* no queue entry, no notification.
C31_CommandOutcomeIgnored ==
    /\ \A l \in Running :
            (l.idx = Len(HookOf(l.exec.hook).actions) /\ AllToTerminal(l.exec.hook))
            => ActionSettles(Engine, l, FALSE).status[l.exec.hook] = "active"
    /\ \A i \in 1..Len(terminals.list), code \in ExitCodes :
            terminals.list[i].exit = "running"
            => CommandEnds(Engine, i, code) =
                    [Engine EXCEPT !.terminals.list[i].exit = code]

\* C31 witness: the hook's only execution is over, every command it sent has
\* ended with exit code 1, and the hook's status is active.
C31_Witness ==
    \E o \in hooks :
        /\ AllToTerminal(o)
        /\ enqueued = 1 /\ Idle /\ lastExecuted[o] = 1
        /\ Len(terminals.list) = Len(HookOf(o).actions)
        /\ \A i \in 1..Len(terminals.list) :
              terminals.list[i].hook = o /\ terminals.list[i].exit = "1"
        /\ status[o] = "active"

\* getActiveHooks() on engine s: Array.from(this.activeHooks.values()).
ActiveHooksOf(s) == {s.activeHooks[id] : id \in HookIds} \ {None}

\* The hook objects that carry the id of o.
SameId(o) == {p \in HookObjs : HookOf(p).id = HookOf(o).id}

\* What registerHook and unregisterHook do to the list getActiveHooks returns,
\* from any reachable state: registering an enabled hook puts it in the place
\* of the hook recorded under its id, registering a disabled hook changes
\* nothing, unregistering an id removes the hook recorded under it.
RegistryFollowsCalls ==
    /\ \A o \in hooks : \A failAt \in 0..Len(GetHookPatterns(o)) :
            ActiveHooksOf(RegisterHook(Engine, o, failAt)) =
                IF HookOf(o).enabled
                THEN (GetActiveHooks \ SameId(o)) \cup {o}
                ELSE GetActiveHooks
    /\ \A id \in HookIds :
            ActiveHooksOf(UnregisterHook(Engine, id)) =
                {o \in GetActiveHooks : HookOf(o).id # id}
    /\ \A o \in GetActiveHooks : activeHooks[HookOf(o).id] = o

\* The queries are read-only, and getHook returns the registry's entry.
QueriesReadOnly ==
    [][lastCall'.op \in {"getHook", "getActiveHooks"}
       => /\ UNCHANGED <<engineVars, terminals, hooks>>
          /\ lastCall'.op = "getHook" => lastCall'.result = activeHooks[lastCall'.arg]]_vars

\* C33 as claimed: the queries are read-only, and the list getActiveHooks
\* returns changes with registerHook and unregisterHook only, so that it is at
\* any time the hooks registered with enabled = true and not unregistered
\* since, one per id.
C33_AsClaimed ==
    /\ QueriesReadOnly
    /\ []RegistryFollowsCalls
    /\ [][lastCall'.op \notin {"registerHook", "unregisterHook"}
          => GetActiveHooks' = GetActiveHooks]_vars

\* C33 (read-only queries), amended: the queries are read-only; the list
\* getActiveHooks returns is changed by registerHook and unregisterHook as
\* claimed, and by dispose(), which empties it; no other step changes it. It is
\* at any time the hooks registered with enabled = true and neither
\* unregistered nor disposed of since, one per id.
C33_QueriesReadOnly ==
    /\ QueriesReadOnly
    /\ []RegistryFollowsCalls
    /\ [][lastCall'.op \notin {"registerHook", "unregisterHook", "dispose"}
          => GetActiveHooks' = GetActiveHooks]_vars
    /\ [][lastCall'.op = "dispose" => GetActiveHooks' = {}]_vars

\* C33 witness: getActiveHooks has just been called while an execution is in
\* progress, an entry waits and watchers are subscribed; it returned the one
\* registered hook.
C33_Witness ==
    /\ lastCall = Call("getActiveHooks", "-", "returns")
    /\ GetActiveHooks = {"oSave"}
    /\ Running # {} /\ executionQueue # <<>> /\ watchers # <<>>

\* C34 (watcher bookkeeping): every watcher created and not disposed is the
\* one the watcher table records under its hook's id, and that id is in the
\* registry: no subscription is alive that unregisterHook or dispose() could
\* not find in the table.
C34_WatcherBookkeeping ==
    \A i \in 1..Len(watchers) :
        /\ fileWatchers[HookOf(watchers[i].hook).id] = i
        /\ activeHooks[HookOf(watchers[i].hook).id] # None

\* C35 (dispose is final): when dispose() has returned the registry, the
\* watcher table and the queue are empty and the entries that waited are
\* discarded; and unless the host then registers or triggers a hook again, the
\* next step starts no hook execution: the engine has nothing left that could
\* enqueue one.
C35_DisposeIsFinal ==
    /\ [](lastCall.op = "dispose"
          => /\ activeHooks = [id \in HookIds |-> None]
             /\ fileWatchers = [id \in HookIds |-> 0]
             /\ executionQueue = <<>>)
    /\ [][lastCall'.op = "dispose"
          => \A i \in QueueIndices : executionQueue[i].seq \in dropped']_vars
    /\ [][(lastCall.op = "dispose" /\ lastCall'.op \notin {"registerHook", "triggerHook"})
          => /\ lastExecuted' = lastExecuted
             /\ enqueued' = enqueued]_vars

\* C36 (entries only for registered hooks): every entry a step appends to the
\* queue is for a hook that the registry holds under its id when the step
\* ends, whichever path appends it: a watcher callback, triggerHook,
\* registerHook or the Retry choice of a failure notification.
C36_EnqueueOnlyRegistered ==
    [][\A e \in EntriesAfter :
            e.seq > enqueued => activeHooks'[HookOf(e.hook).id] = e.hook]_vars

\* C37 (Retry): a failing action leaves a notification whose Retry holds the
\* hook, the trigger label and the payload of the execution that failed;
\* choosing Retry appends exactly one entry with these three, numbered after
\* every entry appended before; with the consumer busy the entry goes to the
\* tail of the queue and nothing else changes but the notification, with the
\* consumer idle the flag is set and the entry is the execution started.
C37_RetryAppendsAtTail ==
    /\ [][\A l \in loops :
            (lastCall' = Call("action", l.exec.hook, "throws") /\ ActionRaises(l))
            => notifications' = notifications (+) SetToBag({
                    [hook |-> l.exec.hook, trigger |-> l.exec.trigger,
                     data |-> l.exec.data]})]_vars
    /\ [][\A n \in BagToSet(notifications) :
            (lastCall' = Call("answer", n.hook, "Retry") /\ Retry(n))
            => LET e == [hook |-> n.hook, trigger |-> n.trigger, data |-> n.data,
                         seq |-> enqueued + 1]
               IN  /\ enqueued' = enqueued + 1
                   /\ notifications' = notifications (-) SetToBag({n})
                   /\ UNCHANGED <<activeHooks, fileWatchers, watchers, dropped>>
                   /\ IF isExecuting
                      THEN /\ executionQueue' = Append(executionQueue, e)
                           /\ UNCHANGED <<isExecuting, loops, status, lastExecuted>>
                      ELSE /\ executionQueue = <<>> /\ executionQueue' = <<>>
                           /\ isExecuting'
                           /\ loops' = {AwaitingAction(e, 1)}
                           /\ lastExecuted'[n.hook] = e.seq]_vars

\* C37 witness: Retry was chosen for a failed fileChanged execution while the
\* consumer was busy and an entry appended after the failed one waited: the
\* retried entry is the queue's last, behind that entry, with the failed
\* execution's label and file.
C37_Witness ==
    /\ lastCall = Call("answer", "oSave", "Retry")
    /\ isExecuting
    /\ Len(executionQueue) = 2
    /\ executionQueue[2].seq = enqueued
    /\ executionQueue[2].trigger = "fileChanged"
    /\ executionQueue[2].data = FileData(PathSrc)
    /\ executionQueue[1].trigger = "manual"
    /\ executionQueue[1].seq < executionQueue[2].seq

\* C38 (task ids): the task queue never holds two tasks with the same id, and
\* the id of the current task is never in the queue.
C38_TaskIdsDistinct ==
    /\ \A i, j \in 1..Len(taskManager.queue) :
            i # j => taskManager.queue[i].id # taskManager.queue[j].id
    /\ taskManager.currentTask # NoTask
            => taskManager.currentTask.id \notin QueuedIds(taskManager.queue)

\* The tasks of queue q other than id, in q's order.
OthersInOrder(q, id) ==
    LET keep == {i \in 1..Len(q) : q[i].id # id}
        Rank(i) == Cardinality({j \in keep : j <= i})
    IN  [n \in 1..Cardinality(keep) |-> q[CHOOSE i \in keep : Rank(i) = n]]

ToggleFlips ==
    [][lastCall'.op = "toggleHook"
       => IF lastCall'.arg \in PanelHookIds
          THEN LET before == hooksStatus.hooks[lastCall'.arg]
                   after == hooksStatus'.hooks[lastCall'.arg]
               IN  /\ after.enabled = ~before.enabled
                   /\ after.status = IF after.enabled THEN "active" ELSE "disabled"
                   /\ \A id \in PanelHookIds \ {lastCall'.arg} :
                         hooksStatus'.hooks[id] = hooksStatus.hooks[id]
          ELSE hooksStatus' = hooksStatus]_vars

\* C40 (status follows enabled): in every state that toggleHook and
\* executeHook calls lead to, a hook of the hooks panel has status disabled
\* exactly when it is not enabled; toggleHook flips enabled and sets the
\* status with it; and an executeHook call, at its await and when it has
\* returned or caught, leaves this.hooks as it was, so no hook that is not
\* enabled is left active, pending or error.
C40_DisabledIffNotEnabled ==
    /\ [](\A id \in PanelHookIds :
            /\ hooksStatus.hooks[id].status = "disabled" <=> ~hooksStatus.hooks[id].enabled
            /\ hooksStatus.hooks[id].status \in {"active", "disabled"})
    /\ ToggleFlips
    /\ [][lastCall'.op = "executeHook" => hooksStatus'.hooks = hooksStatus.hooks]_vars

\* C40 witness: executeHook has returned for a hook that was disabled by
\* toggleHook while the call waited for its timer; the hook is not enabled
\* and its status is disabled.
C40_Witness ==
    /\ lastCall = Call("executeHook", "pre-commit-lint", "returns")
    /\ ~hooksStatus.hooks["pre-commit-lint"].enabled
    /\ hooksStatus.hooks["pre-commit-lint"].status = "disabled"
    /\ hooksStatus.runs = EmptyBag

\* Blank text: nothing but white space.
IsBlank(s) == \A i \in 1..Len(s) : s[i] = " "

\* The defects validateHook is said to report.
NameOrDescriptionEmpty(h) ==
    \/ ~h.name.some \/ IsBlank(h.name.val)
    \/ ~h.description.some \/ IsBlank(h.description.val)
ActionListEmpty(h) == h.actions.val = <<>>
TriggerUnknown(h) == h.trigger \notin Triggers
SomeActionBlank(h) ==
    \E i \in 1..Len(h.actions.val) : IsBlank(h.actions.val[i])
SomeActionUnprefixed(h) ==
    \E i \in 1..Len(h.actions.val) :
        /\ ~IsBlank(h.actions.val[i])
        /\ h.actions.val[i][1] \notin ValidPrefixes

\* C32 (validateHook): for a hook that has an action list, validateHook
\* returns, and it reports the hook invalid exactly when the name or the
\* description is empty, the action list is empty, the trigger is not one of
\* the five, an action is blank, or an action has none of the three prefixes
\* and the trigger is not custom; so with the trigger custom actions without a
\* prefix are accepted. isValid is true exactly when no error is listed.
C32_ValidateHook ==
    LET h == hookBuilder.hook
        v == hookBuilder.validation
    IN  (v # NotValidated /\ h.actions.some) =>
            /\ v.outcome = "returns"
            /\ v.isValid <=> v.errors = <<>>
            /\ ~v.isValid <=>
                  \/ NameOrDescriptionEmpty(h)
                  \/ ActionListEmpty(h)
                  \/ TriggerUnknown(h)
                  \/ SomeActionBlank(h)
                  \/ SomeActionUnprefixed(h) /\ h.trigger # "custom"

\* C32 witness: a custom hook with a name, a description and two actions
\* without prefix has been validated and found valid.
C32_Witness ==
    /\ hookBuilder.validation.outcome = "returns"
    /\ hookBuilder.validation.isValid
    /\ hookBuilder.hook.trigger = "custom"
    /\ SomeActionUnprefixed(hookBuilder.hook)
    /\ Len(hookBuilder.hook.actions.val) = 2

==============================================================================
